---- MODULE Spec2Model ----
\* Byte-level model of the stable-swap protocol layer:
\*   instruction.rs  SwapInstruction::pack / unpack (command wire codec)
\*   state.rs        SwapVersion / SwapV2 pack / unpack (pool account record)
\*   utils.rs        u8_to_bool
\* Buffers are sequences of bytes (0..255).  A call ends in one of three ways:
\* Ok(value), Err(kind) or Panic (a Rust panic: index or slice out of range).
EXTENDS Integers, Sequences, FiniteSets, TLC

VARIABLES
    data,     \* the pool account's byte buffer (dst of pack, input of unpack)
    src,      \* the record handed to the last SwapVersion::pack on data
    wr,       \* outcome of that SwapVersion::pack
    rd,       \* outcome of the last SwapVersion::unpack / is_initialized on data
    ixcmd,    \* the command handed to the last SwapInstruction::pack
    ixbuf,    \* the instruction data buffer
    ixout,    \* outcome of the last SwapInstruction::unpack
    built     \* the last builder call: its arguments and what it returned

vars == <<data, src, wr, rd, ixcmd, ixbuf, ixout, built>>
stateVars == <<data, src, wr, rd>>
ixVars == <<ixcmd, ixbuf, ixout>>

\* ---------------------------------------------------------------- bounds
\* Largest vector length of a command handed to SwapInstruction::pack.
MaxLen == 5
\* Largest coin count of a record handed to SwapVersion::pack.
MaxCoinsIn == 5
\* Number of distinct value families ("seeds") the records are drawn from.
MaxSeed == 2
\* Largest number of accounts in a list handed to a builder.
MaxAccounts == 4

\* ------------------------------------------------------- program constants
MAX_N_COINS == 4
PUBKEY_BYTES == 32

\* ---------------------------------------------------------------- outcomes
Ok(v) == [kind |-> "Ok", val |-> v]
Err(e) == [kind |-> "Err", err |-> e]
Panic == [kind |-> "Panic"]
None == [kind |-> "None"]

\* The outcome r of the call named op.
Of(op, r) ==
    CASE r.kind = "Ok" -> [op |-> op, kind |-> "Ok", val |-> r.val]
      [] r.kind = "Err" -> [op |-> op, kind |-> "Err", err |-> r.err]
      [] OTHER -> [op |-> op, kind |-> r.kind]

IsOk(r) == r.kind = "Ok"
IsErr(r, e) == r.kind = "Err" /\ r.err = e

\* ------------------------------------------------------------ byte helpers
Byte == 0..255

\* uN::to_le_bytes: the n low base-256 digits of v, least significant first
\* (so a wider v is truncated to n bytes, as an `as uN` cast does).
RECURSIVE to_le_bytes(_, _)
to_le_bytes(v, n) ==
    IF n = 0 THEN <<>> ELSE <<v % 256>> \o to_le_bytes(v \div 256, n - 1)

\* uN::from_le_bytes.  The model's buffers keep every integer field below
\* 2^31, the largest value a TLC integer holds.
RECURSIVE from_le_bytes(_)
from_le_bytes(b) ==
    IF b = <<>> THEN 0 ELSE b[1] + 256 * from_le_bytes(Tail(b))

\* `flag as u8`
bool_as_u8(f) == IF f THEN 1 ELSE 0

\* utils::u8_to_bool
u8_to_bool(num) ==
    IF num = 0 THEN Ok(FALSE)
    ELSE IF num = 1 THEN Ok(TRUE)
    ELSE Err("InvalidAccountData")

Drop(s, n) == SubSeq(s, n + 1, Len(s))
Take(s, n) == SubSeq(s, 1, n)
Fill(n, b) == [i \in 1..n |-> b]

\* ------------------------------------------------- SwapInstruction: unpack
\* Each reader returns Ok([val, rest]) or Err(InvalidInstruction).
unpack_u8(input) ==
    IF Len(input) = 0 THEN Err("InvalidInstruction")
    ELSE Ok([val |-> input[1], rest |-> Tail(input)])

unpack_u32(input) ==
    IF Len(input) >= 4
    THEN Ok([val |-> from_le_bytes(Take(input, 4)), rest |-> Drop(input, 4)])
    ELSE Err("InvalidInstruction")

\* mutant: split_at(8) without the length test
unpack_u64_unchecked(input) ==
    IF Len(input) >= 8
    THEN Ok([val |-> from_le_bytes(Take(input, 8)), rest |-> Drop(input, 8)])
    ELSE Panic

unpack_u64(input) ==
    IF Len(input) >= 8
    THEN Ok([val |-> from_le_bytes(Take(input, 8)), rest |-> Drop(input, 8)])
    ELSE Err("InvalidInstruction")

\* The loop `for i in 0..length { rest.split_at(i * 8); unpack_u64(..)?; push }`
\* from iteration i on, with the amounts pushed so far in acc.  slice::split_at
\* panics when its index is past the end of the slice.
RECURSIVE unpack_amounts(_, _, _, _)
unpack_amounts(rest, length, i, acc) ==
    IF i >= length THEN Ok(acc)
    ELSE IF i * 8 > Len(rest) THEN Panic
    ELSE LET r == unpack_u64(Drop(rest, i * 8))
         IN  IF ~IsOk(r) THEN r
             ELSE unpack_amounts(rest, length, i + 1, Append(acc, r.val.val))

unpack_Initialize(rest0) ==
    LET nonce == unpack_u8(rest0) IN
    IF ~IsOk(nonce) THEN nonce ELSE
    LET n_coins == unpack_u8(nonce.val.rest) IN
    IF ~IsOk(n_coins) THEN n_coins ELSE
    LET amp == unpack_u64(n_coins.val.rest) IN
    IF ~IsOk(amp) THEN amp ELSE
    LET fee == unpack_u64(amp.val.rest) IN
    IF ~IsOk(fee) THEN fee ELSE
    LET admin_fee == unpack_u64(fee.val.rest) IN
    IF ~IsOk(admin_fee) THEN admin_fee ELSE
    LET swap_enabled == unpack_u8(admin_fee.val.rest) IN
    IF ~IsOk(swap_enabled) THEN swap_enabled ELSE
    LET add_liquidity_enabled == unpack_u8(swap_enabled.val.rest) IN
    IF ~IsOk(add_liquidity_enabled) THEN add_liquidity_enabled ELSE
    LET se == u8_to_bool(swap_enabled.val.val) IN
    IF ~IsOk(se) THEN se ELSE
    LET ale == u8_to_bool(add_liquidity_enabled.val.val) IN
    IF ~IsOk(ale) THEN ale ELSE
    Ok([tag |-> "Initialize",
        nonce |-> nonce.val.val,
        n_coins |-> n_coins.val.val,
        amplification_coefficient |-> amp.val.val,
        fee_numerator |-> fee.val.val,
        admin_fee_numerator |-> admin_fee.val.val,
        admin_settings |-> [swap_enabled |-> se.val,
                            add_liquidity_enabled |-> ale.val]])

\* mutant: min_mint_amount read right after the count, the amounts not skipped
unpack_AddLiquidity_no_skip(rest0) ==
    LET length == unpack_u32(rest0) IN
    IF ~IsOk(length) THEN length ELSE
    LET rest == length.val.rest
        n == length.val.val
        deposit_amounts == unpack_amounts(rest, n, 0, <<>>) IN
    IF ~IsOk(deposit_amounts) THEN deposit_amounts ELSE
    LET min_mint_amount == unpack_u64(rest) IN
    IF ~IsOk(min_mint_amount) THEN min_mint_amount ELSE
    Ok([tag |-> "AddLiquidity",
        deposit_amounts |-> deposit_amounts.val,
        min_mint_amount |-> min_mint_amount.val.val])

unpack_AddLiquidity(rest0) ==
    LET length == unpack_u32(rest0) IN
    IF ~IsOk(length) THEN length ELSE
    LET rest == length.val.rest
        n == length.val.val
        deposit_amounts == unpack_amounts(rest, n, 0, <<>>) IN
    IF ~IsOk(deposit_amounts) THEN deposit_amounts ELSE
    IF n * 8 > Len(rest) THEN Panic ELSE
    LET min_mint_amount == unpack_u64(Drop(rest, n * 8)) IN
    IF ~IsOk(min_mint_amount) THEN min_mint_amount ELSE
    Ok([tag |-> "AddLiquidity",
        deposit_amounts |-> deposit_amounts.val,
        min_mint_amount |-> min_mint_amount.val.val])

unpack_RemoveLiquidity(rest0) ==
    LET unmint_amount == unpack_u64(rest0) IN
    IF ~IsOk(unmint_amount) THEN unmint_amount ELSE
    LET length == unpack_u32(unmint_amount.val.rest) IN
    IF ~IsOk(length) THEN length ELSE
    LET minimum_amounts ==
            unpack_amounts(length.val.rest, length.val.val, 0, <<>>) IN
    IF ~IsOk(minimum_amounts) THEN minimum_amounts ELSE
    Ok([tag |-> "RemoveLiquidity",
        unmint_amount |-> unmint_amount.val.val,
        minimum_amounts |-> minimum_amounts.val])

\* The arms of tags 3 and 4: two u64 fields read one after the other.
unpack_two_u64(rest0, tag) ==
    LET a == unpack_u64(rest0) IN
    IF ~IsOk(a) THEN a ELSE
    LET b == unpack_u64(a.val.rest) IN
    IF ~IsOk(b) THEN b ELSE
    IF tag = 3
    THEN Ok([tag |-> "RemoveLiquidityOneToken",
             unmint_amount |-> a.val.val,
             minimum_out_amount |-> b.val.val])
    ELSE Ok([tag |-> "Exchange",
             in_amount |-> a.val.val,
             minimum_out_amount |-> b.val.val])

\* mutant: an unknown tag is reported as the kind the field readers use
SwapInstruction_unpack_invalid_instruction(input) ==
    LET t == unpack_u8(input) IN
    IF ~IsOk(t) THEN t ELSE
    LET tag == t.val.val
        rest == t.val.rest IN
    CASE tag = 0 -> unpack_Initialize(rest)
      [] tag = 1 -> unpack_AddLiquidity(rest)
      [] tag = 2 -> unpack_RemoveLiquidity(rest)
      [] tag = 3 -> unpack_two_u64(rest, 3)
      [] tag = 4 -> unpack_two_u64(rest, 4)
      [] tag = 5 -> Ok([tag |-> "GetVirtualPrice"])
      [] OTHER -> Err("InvalidInstruction")

SwapInstruction_unpack(input) ==
    LET t == unpack_u8(input) IN
    IF ~IsOk(t) THEN t ELSE
    LET tag == t.val.val
        rest == t.val.rest IN
    CASE tag = 0 -> unpack_Initialize(rest)
      [] tag = 1 -> unpack_AddLiquidity(rest)
      [] tag = 2 -> unpack_RemoveLiquidity(rest)
      [] tag = 3 -> unpack_two_u64(rest, 3)
      [] tag = 4 -> unpack_two_u64(rest, 4)
      [] tag = 5 -> Ok([tag |-> "GetVirtualPrice"])
      [] OTHER -> Err("InvalidAccountData")

\* --------------------------------------------------- SwapInstruction: pack
RECURSIVE pack_amounts(_)
pack_amounts(amounts) ==
    IF amounts = <<>> THEN <<>>
    ELSE to_le_bytes(Head(amounts), 8) \o pack_amounts(Tail(amounts))

\* mutant: the element count of AddLiquidity is written as a u64
SwapInstruction_pack_count_u64(c) ==
    CASE c.tag = "Initialize" ->
            <<0, c.nonce, c.n_coins>>
            \o to_le_bytes(c.amplification_coefficient, 8)
            \o to_le_bytes(c.fee_numerator, 8)
            \o to_le_bytes(c.admin_fee_numerator, 8)
            \o <<bool_as_u8(c.admin_settings.swap_enabled),
                 bool_as_u8(c.admin_settings.add_liquidity_enabled)>>
      [] c.tag = "AddLiquidity" ->
            <<1>> \o to_le_bytes(Len(c.deposit_amounts), 8)
            \o pack_amounts(c.deposit_amounts)
            \o to_le_bytes(c.min_mint_amount, 8)
      [] c.tag = "RemoveLiquidity" ->
            <<2>> \o to_le_bytes(c.unmint_amount, 8)
            \o to_le_bytes(Len(c.minimum_amounts), 4)
            \o pack_amounts(c.minimum_amounts)
      [] c.tag = "RemoveLiquidityOneToken" ->
            <<3>> \o to_le_bytes(c.unmint_amount, 8)
            \o to_le_bytes(c.minimum_out_amount, 8)
      [] c.tag = "Exchange" ->
            <<4>> \o to_le_bytes(c.in_amount, 8)
            \o to_le_bytes(c.minimum_out_amount, 8)
      [] c.tag = "GetVirtualPrice" -> <<5>>

SwapInstruction_pack(c) ==
    CASE c.tag = "Initialize" ->
            <<0, c.nonce, c.n_coins>>
            \o to_le_bytes(c.amplification_coefficient, 8)
            \o to_le_bytes(c.fee_numerator, 8)
            \o to_le_bytes(c.admin_fee_numerator, 8)
            \o <<bool_as_u8(c.admin_settings.swap_enabled),
                 bool_as_u8(c.admin_settings.add_liquidity_enabled)>>
      [] c.tag = "AddLiquidity" ->
            <<1>> \o to_le_bytes(Len(c.deposit_amounts), 4)
            \o pack_amounts(c.deposit_amounts)
            \o to_le_bytes(c.min_mint_amount, 8)
      [] c.tag = "RemoveLiquidity" ->
            <<2>> \o to_le_bytes(c.unmint_amount, 8)
            \o to_le_bytes(Len(c.minimum_amounts), 4)
            \o pack_amounts(c.minimum_amounts)
      [] c.tag = "RemoveLiquidityOneToken" ->
            <<3>> \o to_le_bytes(c.unmint_amount, 8)
            \o to_le_bytes(c.minimum_out_amount, 8)
      [] c.tag = "Exchange" ->
            <<4>> \o to_le_bytes(c.in_amount, 8)
            \o to_le_bytes(c.minimum_out_amount, 8)
      [] c.tag = "GetVirtualPrice" -> <<5>>

\* ------------------------------------------------------ SwapV2 byte layout
\* The twelve pieces array_refs! / mut_array_refs! cut the record into.
FieldWidths ==
    <<1, 1, 8, 8, 8, 4, 8,
      MAX_N_COINS * 8, MAX_N_COINS * PUBKEY_BYTES, PUBKEY_BYTES, PUBKEY_BYTES, 2>>

RECURSIVE SumTo(_, _)
SumTo(w, n) == IF n = 0 THEN 0 ELSE w[n] + SumTo(w, n - 1)

SwapV2_LEN == SumTo(FieldWidths, Len(FieldWidths))
LATEST_LEN == 1 + SwapV2_LEN

\* Field numbers, in layout order.
F_is_initialized == 1
F_nonce == 2
F_amplification_coefficient == 3
F_fee_numerator == 4
F_admin_fee_numerator == 5
F_tokens_len == 6
F_precision_factor == 7
F_multipliers == 8
F_tokens == 9
F_pool_mint == 10
F_admin_token_mint == 11
F_admin_settings == 12

\* Offset of field f in the record (0-based, as in Rust).
Offset(f) == SumTo(FieldWidths, f - 1)
\* The bytes of field f of a record buffer b.
Field(b, f) == SubSeq(b, Offset(f) + 1, Offset(f) + FieldWidths[f])
\* copy_from_slice into dst[off .. off + len(bytes)]
Write(dst, off, bytes) ==
    SubSeq(dst, 1, off) \o bytes \o SubSeq(dst, off + Len(bytes) + 1, Len(dst))

\* ------------------------------------------------ SwapV2::unpack_from_slice
\* mutant: every slot of the region is read, whatever the coin count says
RECURSIVE unpack_slots_all(_, _, _, _, _, _)
unpack_slots_all(region, width, count, i, isInt, acc) ==
    IF i * width + width > Len(region) THEN Ok(acc)
    ELSE LET slot == SubSeq(region, i * width + 1, i * width + width)
         IN  unpack_slots_all(region, width, count, i + 1, isInt,
                 Append(acc, IF isInt THEN from_le_bytes(slot) ELSE slot))

\* `for i in 0..tokens_len { array_ref!(region, i * width, width); push }`:
\* array_ref! panics when i * width + width is past the end of the region.
RECURSIVE unpack_slots(_, _, _, _, _, _)
unpack_slots(region, width, count, i, isInt, acc) ==
    IF i >= count THEN Ok(acc)
    ELSE IF i * width + width > Len(region) THEN Panic
    ELSE LET slot == SubSeq(region, i * width + 1, i * width + width)
         IN  unpack_slots(region, width, count, i + 1, isInt,
                 Append(acc, IF isInt THEN from_le_bytes(slot) ELSE slot))

SwapV2_unpack_from_slice(input) ==
    IF Len(input) < SwapV2_LEN THEN Panic ELSE
    LET b == Take(input, SwapV2_LEN)
        is_initialized == u8_to_bool(Field(b, F_is_initialized)[1])
    IN
    IF ~IsOk(is_initialized) THEN is_initialized ELSE
    LET tokens_len == from_le_bytes(Field(b, F_tokens_len))
        ms == unpack_slots(Field(b, F_multipliers), 8, tokens_len, 0, TRUE, <<>>)
    IN
    IF ~IsOk(ms) THEN ms ELSE
    LET ts == unpack_slots(Field(b, F_tokens), PUBKEY_BYTES, tokens_len, 0, FALSE, <<>>)
    IN
    IF ~IsOk(ts) THEN ts ELSE
    LET se == u8_to_bool(Field(b, F_admin_settings)[1]) IN
    IF ~IsOk(se) THEN se ELSE
    LET ale == u8_to_bool(Field(b, F_admin_settings)[2]) IN
    IF ~IsOk(ale) THEN ale ELSE
    Ok([is_initialized |-> is_initialized.val,
        nonce |-> Field(b, F_nonce)[1],
        amplification_coefficient |-> from_le_bytes(Field(b, F_amplification_coefficient)),
        fee_numerator |-> from_le_bytes(Field(b, F_fee_numerator)),
        admin_fee_numerator |-> from_le_bytes(Field(b, F_admin_fee_numerator)),
        precision_factor |-> from_le_bytes(Field(b, F_precision_factor)),
        precision_multipliers |-> ms.val,
        token_account_addresses |-> ts.val,
        pool_mint_address |-> Field(b, F_pool_mint),
        admin_token_mint_address |-> Field(b, F_admin_token_mint),
        admin_settings |-> [swap_enabled |-> se.val,
                            add_liquidity_enabled |-> ale.val]])

\* -------------------------------------------------- SwapV2::pack_into_slice
\* mutant: the slots after the last item are cleared
RECURSIVE pack_slots_zero_rest(_, _, _, _, _, _, _)
pack_slots_zero_rest(b, off, regionLen, width, items, i, isInt) ==
    IF i >= Len(items)
    THEN [buf |-> IF i * width <= regionLen
                  THEN Write(b, off + i * width, Fill(regionLen - i * width, 0))
                  ELSE b,
          panicked |-> FALSE]
    ELSE IF i * width + width > regionLen THEN [buf |-> b, panicked |-> TRUE]
    ELSE pack_slots_zero_rest(
            Write(b, off + i * width,
                  IF isInt THEN to_le_bytes(items[i + 1], 8) ELSE items[i + 1]),
            off, regionLen, width, items, i + 1, isInt)

\* mutant: every slot is placed with the 8-byte stride of the multipliers
RECURSIVE pack_slots_stride8(_, _, _, _, _, _, _)
pack_slots_stride8(b, off, regionLen, width, items, i, isInt) ==
    IF i >= Len(items) THEN [buf |-> b, panicked |-> FALSE]
    ELSE IF i * width + width > regionLen THEN [buf |-> b, panicked |-> TRUE]
    ELSE pack_slots_stride8(
            Write(b, off + i * 8,
                  IF isInt THEN to_le_bytes(items[i + 1], 8) ELSE items[i + 1]),
            off, regionLen, width, items, i + 1, isInt)

\* `for i in 0..items.len() { array_mut_ref![region, i * width, width]
\*  .copy_from_slice(..) }` on the region at offset off of buffer b: the slots
\* written before a panic stay written.  Returns [buf, panicked].
RECURSIVE pack_slots(_, _, _, _, _, _, _)
pack_slots(b, off, regionLen, width, items, i, isInt) ==
    IF i >= Len(items) THEN [buf |-> b, panicked |-> FALSE]
    ELSE IF i * width + width > regionLen THEN [buf |-> b, panicked |-> TRUE]
    ELSE pack_slots(
            Write(b, off + i * width,
                  IF isInt THEN to_le_bytes(items[i + 1], 8) ELSE items[i + 1]),
            off, regionLen, width, items, i + 1, isInt)

SwapV2_pack_into_slice(self, dst) ==
    IF Len(dst) < SwapV2_LEN THEN [buf |-> dst, panicked |-> TRUE] ELSE
    LET b1 == Write(dst, Offset(F_is_initialized), <<bool_as_u8(self.is_initialized)>>)
        b2 == Write(b1, Offset(F_nonce), <<self.nonce>>)
        b3 == Write(b2, Offset(F_amplification_coefficient),
                    to_le_bytes(self.amplification_coefficient, 8))
        b4 == Write(b3, Offset(F_fee_numerator), to_le_bytes(self.fee_numerator, 8))
        b5 == Write(b4, Offset(F_admin_fee_numerator),
                    to_le_bytes(self.admin_fee_numerator, 8))
        b6 == Write(b5, Offset(F_tokens_len),
                    to_le_bytes(Len(self.token_account_addresses), 4))
        b7 == Write(b6, Offset(F_precision_factor), to_le_bytes(self.precision_factor, 8))
        m == pack_slots(b7, Offset(F_multipliers), FieldWidths[F_multipliers], 8,
                        self.precision_multipliers, 0, TRUE)
    IN
    IF m.panicked THEN m ELSE
    LET t == pack_slots(m.buf, Offset(F_tokens), FieldWidths[F_tokens], PUBKEY_BYTES,
                        self.token_account_addresses, 0, FALSE)
    IN
    IF t.panicked THEN t ELSE
    LET b8 == Write(t.buf, Offset(F_pool_mint), self.pool_mint_address)
        b9 == Write(b8, Offset(F_admin_token_mint), self.admin_token_mint_address)
        b10 == Write(b9, Offset(F_admin_settings),
                     <<bool_as_u8(self.admin_settings.swap_enabled),
                       bool_as_u8(self.admin_settings.add_liquidity_enabled)>>)
    IN [buf |-> b10, panicked |-> FALSE]

\* ------------------------------------------ Pack for SwapV2 (trait methods)
\* Pack::unpack_unchecked: the length test, then unpack_from_slice.
Pack_unpack_unchecked(input) ==
    IF Len(input) # SwapV2_LEN THEN Err("InvalidAccountData")
    ELSE SwapV2_unpack_from_slice(input)

\* Pack::unpack (Self: IsInitialized): an uninitialized value is an error.
Pack_unpack(input) ==
    LET value == Pack_unpack_unchecked(input) IN
    IF ~IsOk(value) THEN value
    ELSE IF value.val.is_initialized THEN value
    ELSE Err("UninitializedAccount")

\* Pack::pack: the length test, then pack_into_slice.  Returns [res, buf].
Pack_pack(self, dst) ==
    IF Len(dst) # SwapV2_LEN THEN [res |-> Err("InvalidAccountData"), buf |-> dst]
    ELSE LET p == SwapV2_pack_into_slice(self, dst)
         IN  [res |-> IF p.panicked THEN Panic ELSE Ok(TRUE), buf |-> p.buf]

\* -------------------------------------------------------------- SwapVersion
\* mutant: the length is checked before the version byte is written
SwapVersion_pack_atomic(swap_info, dst) ==
    IF Len(dst) = 0 THEN [res |-> Panic, buf |-> dst]
    ELSE IF Len(dst) # LATEST_LEN
    THEN [res |-> Err("InvalidAccountData"), buf |-> dst]
    ELSE LET p == Pack_pack(swap_info, Tail(dst))
         IN  [res |-> p.res, buf |-> <<2>> \o p.buf]

\* SwapVersion::pack(SwapV2(swap_info), dst).  Returns [res, buf]: the outcome
\* and the bytes of dst when the call ends.
SwapVersion_pack(swap_info, dst) ==
    IF Len(dst) = 0 THEN [res |-> Panic, buf |-> dst]
    ELSE LET p == Pack_pack(swap_info, Tail(dst))
         IN  [res |-> p.res, buf |-> <<2>> \o p.buf]

\* mutant: unpack_from_slice called directly, without Pack::unpack's tests
SwapVersion_unpack_from_slice(input) ==
    IF Len(input) = 0 THEN Err("InvalidAccountData")
    ELSE IF Head(input) = 2 THEN SwapV2_unpack_from_slice(Tail(input))
    ELSE Err("UninitializedAccount")

\* mutant: an unknown version reported as malformed data
SwapVersion_unpack_invalid_data(input) ==
    IF Len(input) = 0 THEN Err("InvalidAccountData")
    ELSE IF Head(input) = 2 THEN Pack_unpack(Tail(input))
    ELSE Err("InvalidAccountData")

SwapVersion_unpack(input) ==
    IF Len(input) = 0 THEN Err("InvalidAccountData")
    ELSE IF Head(input) = 2 THEN Pack_unpack(Tail(input))
    ELSE Err("UninitializedAccount")

SwapVersion_is_initialized(input) ==
    LET swap == SwapVersion_unpack(input) IN
    CASE swap.kind = "Ok" -> Ok(swap.val.is_initialized)
      [] swap.kind = "Err" -> Ok(FALSE)
      [] OTHER -> swap

\* ------------------------------------------------------------------ inputs
\* A Pubkey: 32 bytes, here the run k+1, k+2, ... (mod 256).
Key(k) == [j \in 1..PUBKEY_BYTES |-> (k + j) % 256]

\* The record of seed s with km multipliers and ka token accounts.
Rec(km, ka, init, s) ==
    [is_initialized |-> init,
     nonce |-> 250 + s,
     amplification_coefficient |-> 100 * s,
     fee_numerator |-> 256 * s + 10,
     admin_fee_numerator |-> 65536 * s + 2,
     precision_factor |-> 1000000 * s,
     precision_multipliers |-> [i \in 1..km |-> 1000 * s + i],
     token_account_addresses |-> [i \in 1..ka |-> Key(16 * s + i)],
     pool_mint_address |-> Key(100 + s),
     admin_token_mint_address |-> Key(200 + s),
     admin_settings |-> [swap_enabled |-> s % 2 = 1,
                         add_liquidity_enabled |-> s % 3 # 0]]

\* Records handed to SwapVersion::pack: initialized ones of every seed and
\* coin count, uninitialized ones of seed 1, and one of each way the two
\* vectors can differ in length.
Records ==
    { Rec(k, k, TRUE, s) : k \in 0..MaxCoinsIn, s \in 1..MaxSeed }
    \cup { Rec(k, k, FALSE, 1) : k \in 0..MaxCoinsIn }
    \cup { Rec(2, 1, TRUE, 1), Rec(1, 2, TRUE, 1) }

CoinCount(r) == Len(r.token_account_addresses)
WellFormed(r) ==
    /\ Len(r.precision_multipliers) = Len(r.token_account_addresses)
    /\ CoinCount(r) <= MAX_N_COINS

\* Lengths of the account buffers the host hands over.
AccountLens == {0, 1, LATEST_LEN - 1, LATEST_LEN, LATEST_LEN + 1}

\* Byte values written over a byte of a buffer.
PokeBytes == {0, 1, 2, 3, 5, 255}

\* A vector of n amounts of seed s.
Amts(n, s) == [i \in 1..n |-> 65536 * s + 250 * i]

\* Commands handed to SwapInstruction::pack.
Commands ==
    { [tag |-> "Initialize", nonce |-> n, n_coins |-> c,
       amplification_coefficient |-> 100, fee_numerator |-> f,
       admin_fee_numerator |-> 2,
       admin_settings |-> [swap_enabled |-> se, add_liquidity_enabled |-> ale]] :
         n \in {5, 255}, c \in {2, 200}, f \in {10},
         se \in BOOLEAN, ale \in BOOLEAN }
    \cup { [tag |-> "AddLiquidity", deposit_amounts |-> Amts(n, s),
            min_mint_amount |-> m] :
             n \in 0..MaxLen, s \in 1..MaxSeed, m \in {0, 500} }
    \cup { [tag |-> "RemoveLiquidity", unmint_amount |-> u,
            minimum_amounts |-> Amts(n, s)] :
             u \in {0, 500}, n \in 0..MaxLen, s \in 1..MaxSeed }
    \cup { [tag |-> "RemoveLiquidityOneToken", unmint_amount |-> u,
            minimum_out_amount |-> m] : u \in {1, 500}, m \in {0, 65538} }
    \cup { [tag |-> "Exchange", in_amount |-> u, minimum_out_amount |-> m] :
             u \in {1, 500}, m \in {0, 65538} }
    \cup { [tag |-> "GetVirtualPrice"] }

\* Single-byte changes made to an encoded command c in transit: the tag set
\* to a byte that is no tag, any of Initialize's one-byte fields, and the low
\* byte of the element count of AddLiquidity / RemoveLiquidity.
IxPokes(c) ==
    { <<1, b>> : b \in {6, 255} }
    \cup (IF c.tag = "Initialize"
          THEN { <<i, b>> : i \in {2, 3, 28, 29}, b \in PokeBytes } ELSE {})
    \cup (IF c.tag = "AddLiquidity" THEN { <<2, b>> : b \in PokeBytes } ELSE {})
    \cup (IF c.tag = "RemoveLiquidity" THEN { <<10, b>> : b \in PokeBytes } ELSE {})

\* ---------------------------------------------------------------- builders
\* The program's declared id.
id == Key(76)

\* mutant: any program id is accepted
check_program_account_any(program_id) == Ok(TRUE)

check_program_account(program_id) ==
    IF program_id # id THEN Err("IncorrectProgramId") ELSE Ok(TRUE)

AccountMeta_new(pubkey, is_signer) ==
    [is_signer |-> is_signer, is_writable |-> TRUE, pubkey |-> pubkey]
AccountMeta_new_readonly(pubkey, is_signer) ==
    [is_signer |-> is_signer, is_writable |-> FALSE, pubkey |-> pubkey]

\* `for a in addresses { accounts.push(AccountMeta::new(*a, false)) }`
push_each_new(addresses) ==
    [i \in 1..Len(addresses) |-> AccountMeta_new(addresses[i], FALSE)]
\* `for a in addresses { accounts.push(AccountMeta::new_readonly(*a, false)) }`
push_each_new_readonly(addresses) ==
    [i \in 1..Len(addresses) |-> AccountMeta_new_readonly(addresses[i], FALSE)]

\* The four accounts add_liquidity, remove_liquidity,
\* remove_liquidity_one_token and exchange all push first.
push_common(swap_account_address, token_program_address, pool_authority_address, user_transfer_authority_address) ==
    <<AccountMeta_new_readonly(swap_account_address, FALSE),
      AccountMeta_new_readonly(token_program_address, FALSE),
      AccountMeta_new_readonly(pool_authority_address, FALSE),
      AccountMeta_new_readonly(user_transfer_authority_address, TRUE)>>

\* An Instruction.
Instruction(program_id, accounts, bytes) ==
    [accounts |-> accounts, data |-> bytes, program_id |-> program_id]

\* mutant: the mints are pushed before the token accounts
initialize_mints_first(program_id, swap_account_address, pool_authority_address, swap_token_accounts_addresses, swap_token_mint_addresses, pool_token_mint_address, admin_token_mint_address, nonce, n_coins, amplification_coefficient, fee_numerator, admin_fee_numerator, admin_settings) ==
    LET chk == check_program_account(program_id) IN
    IF ~IsOk(chk) THEN chk ELSE
    Ok(Instruction(program_id,
        <<AccountMeta_new(swap_account_address, FALSE),
          AccountMeta_new_readonly(pool_authority_address, FALSE)>>
        \o push_each_new_readonly(swap_token_mint_addresses)
        \o push_each_new_readonly(swap_token_accounts_addresses)
        \o <<AccountMeta_new_readonly(pool_token_mint_address, FALSE),
             AccountMeta_new_readonly(admin_token_mint_address, FALSE)>>,
        SwapInstruction_pack(
            [tag |-> "Initialize", nonce |-> nonce, n_coins |-> n_coins,
             amplification_coefficient |-> amplification_coefficient,
             fee_numerator |-> fee_numerator,
             admin_fee_numerator |-> admin_fee_numerator,
             admin_settings |-> admin_settings])))

initialize(program_id, swap_account_address, pool_authority_address, swap_token_accounts_addresses, swap_token_mint_addresses, pool_token_mint_address, admin_token_mint_address, nonce, n_coins, amplification_coefficient, fee_numerator, admin_fee_numerator, admin_settings) ==
    LET chk == check_program_account(program_id) IN
    IF ~IsOk(chk) THEN chk ELSE
    Ok(Instruction(program_id,
        <<AccountMeta_new(swap_account_address, FALSE),
          AccountMeta_new_readonly(pool_authority_address, FALSE)>>
        \o push_each_new_readonly(swap_token_accounts_addresses)
        \o push_each_new_readonly(swap_token_mint_addresses)
        \o <<AccountMeta_new_readonly(pool_token_mint_address, FALSE),
             AccountMeta_new_readonly(admin_token_mint_address, FALSE)>>,
        SwapInstruction_pack(
            [tag |-> "Initialize", nonce |-> nonce, n_coins |-> n_coins,
             amplification_coefficient |-> amplification_coefficient,
             fee_numerator |-> fee_numerator,
             admin_fee_numerator |-> admin_fee_numerator,
             admin_settings |-> admin_settings])))

add_liquidity(program_id, swap_account_address, token_program_address, pool_authority_address, user_transfer_authority_address, swap_token_addresses, pool_token_mint_address, source_token_addresses, lp_token_account_address, deposit_amounts, min_mint_amount) ==
    LET chk == check_program_account(program_id) IN
    IF ~IsOk(chk) THEN chk ELSE
    Ok(Instruction(program_id,
        push_common(swap_account_address, token_program_address,
                    pool_authority_address, user_transfer_authority_address)
        \o push_each_new(swap_token_addresses)
        \o <<AccountMeta_new(pool_token_mint_address, FALSE)>>
        \o push_each_new(source_token_addresses)
        \o <<AccountMeta_new(lp_token_account_address, FALSE)>>,
        SwapInstruction_pack(
            [tag |-> "AddLiquidity", deposit_amounts |-> deposit_amounts,
             min_mint_amount |-> min_mint_amount])))

remove_liquidity(program_id, swap_account_address, token_program_address, pool_authority_address, user_transfer_authority_address, swap_token_accounts_addresses, pool_mint_address, user_destination_token_account_addresses, lp_token_account_address, unmint_amount, minimum_amounts) ==
    LET chk == check_program_account(program_id) IN
    IF ~IsOk(chk) THEN chk ELSE
    Ok(Instruction(program_id,
        push_common(swap_account_address, token_program_address,
                    pool_authority_address, user_transfer_authority_address)
        \o push_each_new(swap_token_accounts_addresses)
        \o <<AccountMeta_new(pool_mint_address, FALSE)>>
        \o push_each_new(user_destination_token_account_addresses)
        \o <<AccountMeta_new(lp_token_account_address, FALSE)>>,
        SwapInstruction_pack(
            [tag |-> "RemoveLiquidity", unmint_amount |-> unmint_amount,
             minimum_amounts |-> minimum_amounts])))

remove_liquidity_one_token(program_id, swap_account_address, token_program_address, pool_authority_address, user_transfer_authority_address, swap_token_accounts_addresses, pool_mint_address, user_destination_token_account_address, lp_token_account_address, unmint_amount, minimum_out_amount) ==
    LET chk == check_program_account(program_id) IN
    IF ~IsOk(chk) THEN chk ELSE
    Ok(Instruction(program_id,
        push_common(swap_account_address, token_program_address,
                    pool_authority_address, user_transfer_authority_address)
        \o push_each_new(swap_token_accounts_addresses)
        \o <<AccountMeta_new(pool_mint_address, FALSE),
             AccountMeta_new(user_destination_token_account_address, FALSE),
             AccountMeta_new(lp_token_account_address, FALSE)>>,
        SwapInstruction_pack(
            [tag |-> "RemoveLiquidityOneToken", unmint_amount |-> unmint_amount,
             minimum_out_amount |-> minimum_out_amount])))

exchange(program_id, swap_account_address, token_program_address, pool_authority_address, user_transfer_authority_address, swap_token_accounts_addresses, source_token_account_address, destination_token_account_address, in_amount, minimum_out_amount) ==
    LET chk == check_program_account(program_id) IN
    IF ~IsOk(chk) THEN chk ELSE
    Ok(Instruction(program_id,
        push_common(swap_account_address, token_program_address,
                    pool_authority_address, user_transfer_authority_address)
        \o push_each_new(swap_token_accounts_addresses)
        \o <<AccountMeta_new(source_token_account_address, FALSE),
             AccountMeta_new(destination_token_account_address, FALSE)>>,
        SwapInstruction_pack(
            [tag |-> "Exchange", in_amount |-> in_amount,
             minimum_out_amount |-> minimum_out_amount])))

\* The builders of the module, each with the variant it builds.
Builders ==
    [initialize |-> "Initialize",
     add_liquidity |-> "AddLiquidity",
     remove_liquidity |-> "RemoveLiquidity",
     remove_liquidity_one_token |-> "RemoveLiquidityOneToken",
     exchange |-> "Exchange"]

\* Program ids a caller supplies: the declared one and another.
ProgramIds == {id, Key(77)}

\* The single accounts a caller supplies, all different.
Accts ==
    [swap_account_address |-> Key(1),
     token_program_address |-> Key(2),
     pool_authority_address |-> Key(3),
     user_transfer_authority_address |-> Key(4),
     pool_token_mint_address |-> Key(5),
     admin_token_mint_address |-> Key(6),
     lp_token_account_address |-> Key(7),
     source_token_account_address |-> Key(8),
     destination_token_account_address |-> Key(9)]

\* The pool's token accounts, and the caller's second list (mints, sources
\* or destinations), of n accounts each.
SwapTokens(n) == [i \in 1..n |-> Key(32 + i)]
OtherTokens(n) == [i \in 1..n |-> Key(64 + i)]

\* Commands of one variant.
CommandsOf(tag) == { c \in Commands : c.tag = tag }

\* ------------------------------------------------------------- state machine
Init ==
    /\ data = Fill(LATEST_LEN, 0)
    /\ src = None
    /\ wr = None
    /\ rd = None
    /\ ixcmd = None
    /\ ixbuf = <<>>
    /\ ixout = None
    /\ built = None

\* A panic aborts the program: nothing runs after it.
Running == wr.kind # "Panic" /\ rd.kind # "Panic" /\ ixout.kind # "Panic"

\* The host hands over a fresh, zero-filled account buffer of n bytes.
Allocate(n) ==
    /\ Running
    /\ data' = Fill(n, 0)
    /\ src' = None
    /\ wr' = None
    /\ rd' = None
    /\ UNCHANGED <<ixVars, built>>

\* SwapVersion::pack(SwapV2(r), data): the program encodes into an account it
\* was handed zero-filled or has encoded into before.
Pack(r) ==
    /\ Running
    /\ src # None \/ data = Fill(Len(data), 0)
    /\ LET p == SwapVersion_pack(r, data)
       IN  /\ data' = p.buf
           /\ wr' = p.res
    /\ src' = r
    /\ rd' = None
    /\ UNCHANGED <<ixVars, built>>

\* SwapVersion::unpack(data)
Unpack ==
    /\ Running
    /\ rd' = Of("unpack", SwapVersion_unpack(data))
    /\ UNCHANGED <<data, src, wr, ixVars, built>>

\* SwapVersion::is_initialized(data)
IsInitialized ==
    /\ Running
    /\ rd' = Of("is_initialized", SwapVersion_is_initialized(data))
    /\ UNCHANGED <<data, src, wr, ixVars, built>>

\* The encoding of r into a fresh zero-filled account of LATEST_LEN bytes.
Encoding(r) == SwapVersion_pack(r, Fill(LATEST_LEN, 0)).buf

\* data is such an encoding, as the last pack left it.
Fresh == src # None /\ wr.kind = "Ok" /\ data = Encoding(src)

\* Index in data of byte t (from 0) of field f of the record.
At(f, t) == 1 + Offset(f) + t + 1

\* Single-byte changes to an account: <<index in data, new byte>>.
Pokes ==
    { <<1, b>> : b \in {0, 3, 255} }
    \cup { <<At(F_is_initialized, 0), b>> : b \in {0, 1, 2, 255} }
    \cup { <<At(F_nonce, 0), b>> : b \in {0, 255} }
    \cup { <<At(F_tokens_len, 0), b>> : b \in (0..(MAX_N_COINS + 1)) \cup {255} }
    \cup { <<At(F_tokens_len, 1), 1>> }
    \cup { <<At(F_multipliers, 0), 255>>,
           <<At(F_multipliers, (MAX_N_COINS - 1) * 8), 255>>,
           <<At(F_tokens, (MAX_N_COINS - 1) * PUBKEY_BYTES), 255>> }
    \cup { <<At(F_admin_settings, t), b>> : t \in {0, 1}, b \in {0, 1, 2, 255} }

\* Those that set the coin count past MAX_N_COINS.
CountPokes == { p \in Pokes : p[1] = At(F_tokens_len, 0) /\ p[2] > MAX_N_COINS }

\* What the host may do to an account before handing it over: change one byte,
\* or set an oversized coin count and change one more byte.
Forgeries ==
    { <<p>> : p \in Pokes }
    \cup { <<p, q>> : p \in CountPokes, q \in { x \in Pokes : x[1] # At(F_tokens_len, 0) } }

RECURSIVE ApplyPokes(_, _)
ApplyPokes(b, f) ==
    IF f = <<>> THEN b
    ELSE ApplyPokes(Write(b, Head(f)[1] - 1, <<Head(f)[2]>>), Tail(f))

\* The encoded records whose bytes the host changes.
CorruptBases == { Rec(k, k, init, 1) : k \in 0..MAX_N_COINS, init \in BOOLEAN }

\* The host hands over an account with the bytes of f changed: bytes this
\* program did not write.
Corrupt(f) ==
    /\ Running
    /\ Fresh
    /\ src \in CorruptBases
    /\ ApplyPokes(data, f) # data
    /\ data' = ApplyPokes(data, f)
    /\ src' = None
    /\ wr' = None
    /\ rd' = None
    /\ UNCHANGED <<ixVars, built>>

\* The host hands over the account cut or zero-extended to n bytes.
Resize(n) ==
    /\ Running
    /\ Fresh
    /\ n # Len(data)
    /\ data' = IF n <= Len(data) THEN Take(data, n)
               ELSE data \o Fill(n - Len(data), 0)
    /\ src' = None
    /\ wr' = None
    /\ rd' = None
    /\ UNCHANGED <<ixVars, built>>

NextState ==
    \/ \E n \in AccountLens : Allocate(n)
    \/ \E r \in Records : Pack(r)
    \/ \E f \in Forgeries : Corrupt(f)
    \/ \E n \in AccountLens : Resize(n)
    \/ Unpack
    \/ IsInitialized

SpecState == Init /\ [][NextState]_vars

\* SwapInstruction::pack(c): the client encodes a command.
IxPack(c) ==
    /\ Running
    /\ ixcmd' = c
    /\ ixbuf' = SwapInstruction_pack(c)
    /\ ixout' = None
    /\ UNCHANGED <<stateVars, built>>

\* The encoded command as packed, not yet changed in transit.
IxFresh == ixcmd # None /\ ixbuf = SwapInstruction_pack(ixcmd)

\* Only the first n bytes of the encoded command arrive.
IxTruncate(n) ==
    /\ Running
    /\ IxFresh
    /\ n < Len(ixbuf)
    /\ ixbuf' = Take(ixbuf, n)
    /\ ixout' = None
    /\ UNCHANGED <<ixcmd, stateVars, built>>

\* One byte of the encoded command is changed before it arrives.
IxCorrupt(i, b) ==
    /\ Running
    /\ IxFresh
    /\ <<i, b>> \in IxPokes(ixcmd)
    /\ ixbuf[i] # b
    /\ ixbuf' = Write(ixbuf, i - 1, <<b>>)
    /\ ixout' = None
    /\ UNCHANGED <<ixcmd, stateVars, built>>

\* SwapInstruction::unpack(ixbuf): the program decodes what arrived.
IxUnpack ==
    /\ Running
    /\ ixout' = SwapInstruction_unpack(ixbuf)
    /\ UNCHANGED <<ixcmd, ixbuf, stateVars, built>>

NextInstruction ==
    \/ \E c \in Commands : IxPack(c)
    \/ \E n \in 0..(13 + 8 * MaxLen) : IxTruncate(n)
    \/ \E i \in 1..29, b \in {6} \cup PokeBytes : IxCorrupt(i, b)
    \/ IxUnpack

SpecInstruction == Init /\ [][NextInstruction]_vars

\* A caller builds a payload: built keeps the builder's name, the program
\* id, the two account lists and the command parameters it was given, and
\* what it returned.  A caller is done with one payload before it builds the
\* next.
CallInitialize(program_id, tokens, mints, c) ==
    /\ Running
    /\ built = None
    /\ built' =
        [cmd |-> c, fn |-> "initialize", others |-> mints,
         program_id |-> program_id, tokens |-> tokens,
         res |->
           initialize(program_id, Accts.swap_account_address,
                    Accts.pool_authority_address, tokens, mints,
                    Accts.pool_token_mint_address,
                    Accts.admin_token_mint_address,
                    c.nonce, c.n_coins, c.amplification_coefficient,
                    c.fee_numerator, c.admin_fee_numerator, c.admin_settings)]
    /\ UNCHANGED <<stateVars, ixVars>>

CallAddLiquidity(program_id, tokens, sources, c) ==
    /\ Running
    /\ built = None
    /\ built' =
        [cmd |-> c, fn |-> "add_liquidity", others |-> sources,
         program_id |-> program_id, tokens |-> tokens,
         res |->
           add_liquidity(program_id, Accts.swap_account_address,
                       Accts.token_program_address,
                       Accts.pool_authority_address,
                       Accts.user_transfer_authority_address, tokens,
                       Accts.pool_token_mint_address, sources,
                       Accts.lp_token_account_address,
                       c.deposit_amounts, c.min_mint_amount)]
    /\ UNCHANGED <<stateVars, ixVars>>

CallRemoveLiquidity(program_id, tokens, destinations, c) ==
    /\ Running
    /\ built = None
    /\ built' =
        [cmd |-> c, fn |-> "remove_liquidity", others |-> destinations,
         program_id |-> program_id, tokens |-> tokens,
         res |->
           remove_liquidity(program_id, Accts.swap_account_address,
                          Accts.token_program_address,
                          Accts.pool_authority_address,
                          Accts.user_transfer_authority_address, tokens,
                          Accts.pool_token_mint_address, destinations,
                          Accts.lp_token_account_address,
                          c.unmint_amount, c.minimum_amounts)]
    /\ UNCHANGED <<stateVars, ixVars>>

CallRemoveLiquidityOneToken(program_id, tokens, c) ==
    /\ Running
    /\ built = None
    /\ built' =
        [cmd |-> c, fn |-> "remove_liquidity_one_token", others |-> <<>>,
         program_id |-> program_id, tokens |-> tokens,
         res |->
           remove_liquidity_one_token(program_id, Accts.swap_account_address,
                          Accts.token_program_address,
                          Accts.pool_authority_address,
                          Accts.user_transfer_authority_address, tokens,
                          Accts.pool_token_mint_address,
                          Accts.destination_token_account_address,
                          Accts.lp_token_account_address,
                          c.unmint_amount, c.minimum_out_amount)]
    /\ UNCHANGED <<stateVars, ixVars>>

CallExchange(program_id, tokens, c) ==
    /\ Running
    /\ built = None
    /\ built' =
        [cmd |-> c, fn |-> "exchange", others |-> <<>>,
         program_id |-> program_id, tokens |-> tokens,
         res |->
           exchange(program_id, Accts.swap_account_address,
                  Accts.token_program_address,
                  Accts.pool_authority_address,
                  Accts.user_transfer_authority_address, tokens,
                  Accts.source_token_account_address,
                  Accts.destination_token_account_address,
                  c.in_amount, c.minimum_out_amount)]
    /\ UNCHANGED <<stateVars, ixVars>>

\* The caller submits the payload it was returned and keeps nothing of it.
Send ==
    /\ Running
    /\ built # None
    /\ built' = None
    /\ UNCHANGED <<stateVars, ixVars>>

NextBuilder ==
    \/ \E pid \in ProgramIds, n \in 0..MaxAccounts, m \in 0..MaxAccounts,
          c \in CommandsOf("Initialize") :
            CallInitialize(pid, SwapTokens(n), OtherTokens(m), c)
    \/ \E pid \in ProgramIds, n \in 0..MaxAccounts, m \in 0..MaxAccounts,
          c \in CommandsOf("AddLiquidity") :
            CallAddLiquidity(pid, SwapTokens(n), OtherTokens(m), c)
    \/ \E pid \in ProgramIds, n \in 0..MaxAccounts, m \in 0..MaxAccounts,
          c \in CommandsOf("RemoveLiquidity") :
            CallRemoveLiquidity(pid, SwapTokens(n), OtherTokens(m), c)
    \/ \E pid \in ProgramIds, n \in 0..MaxAccounts,
          c \in CommandsOf("RemoveLiquidityOneToken") :
            CallRemoveLiquidityOneToken(pid, SwapTokens(n), c)
    \/ \E pid \in ProgramIds, n \in 0..MaxAccounts,
          c \in CommandsOf("Exchange") :
            CallExchange(pid, SwapTokens(n), c)
    \/ Send

SpecBuilder == Init /\ [][NextBuilder]_vars

\* The codecs and the builders share no state: a run exercises one of them.
StateIdle == src = None /\ wr = None /\ rd = None /\ data = Fill(LATEST_LEN, 0)
IxIdle == ixcmd = None /\ ixout = None /\ ixbuf = <<>>
BuilderIdle == built = None

Next ==
    \/ IxIdle /\ BuilderIdle /\ NextState
    \/ StateIdle /\ BuilderIdle /\ NextInstruction
    \/ StateIdle /\ IxIdle /\ NextBuilder

Spec == Init /\ [][Next]_vars

\* ------------------------------------------------------------ properties
\* rd is the outcome of SwapVersion::unpack(data).
Unpacked == rd # None /\ rd.op = "unpack"
\* rd is the outcome of SwapVersion::is_initialized(data).
Probed == rd # None /\ rd.op = "is_initialized"
\* data is what a successful SwapVersion::pack(src) left.
Packed == src # None /\ wr.kind = "Ok"

\* C1: unpacking the bytes SwapInstruction::pack produced for a command
\* succeeds and returns that command, for every variant and vector length.
C1_RoundTrip == (IxFresh /\ ixout # None) => ixout = Ok(ixcmd)

C1_Witness ==
    /\ IxFresh
    /\ ixout = Ok(ixcmd)
    /\ ixcmd.tag = "AddLiquidity"
    /\ Len(ixcmd.deposit_amounts) = 3

\* C2 as claimed: a record with both vectors of one length <= MAX_N_COINS,
\* initialized or not, packed into a zero-filled LATEST_LEN buffer unpacks to
\* that record.
C2_RoundTripAnyRecord ==
    (Fresh /\ WellFormed(src) /\ Unpacked) => rd = Of("unpack", Ok(src))

\* C2 amended: such a record packs successfully into any LATEST_LEN buffer;
\* packed into a zero-filled one it unpacks to that record when its
\* is_initialized is true, and unpack fails with UninitializedAccount when
\* it is false.
C2_RoundTripInitialized ==
    /\ (src # None /\ WellFormed(src) /\ Len(data) = LATEST_LEN) => wr = Ok(TRUE)
    /\ (Fresh /\ WellFormed(src) /\ Unpacked) =>
          rd = IF src.is_initialized
               THEN Of("unpack", Ok(src))
               ELSE Of("unpack", Err("UninitializedAccount"))

C2_Witness ==
    /\ Fresh
    /\ WellFormed(src)
    /\ CoinCount(src) = 3
    /\ src.is_initialized
    /\ rd = Of("unpack", Ok(src))

\* A strict prefix of the bytes packed for ixcmd.
StrictPrefix ==
    /\ ixcmd # None
    /\ Len(ixbuf) < Len(SwapInstruction_pack(ixcmd))
    /\ ixbuf = Take(SwapInstruction_pack(ixcmd), Len(ixbuf))

\* C3: unpacking a strict prefix of an encoded command (the empty buffer
\* included) fails with InvalidInstruction or InvalidAccountData: no command
\* is returned and nothing panics.
C3_TruncationRejected ==
    (StrictPrefix /\ ixout # None) =>
        /\ ixout.kind = "Err"
        /\ ixout.err \in {"InvalidInstruction", "InvalidAccountData"}

\* AddLiquidity cut inside its second amount: the count (3) exceeds the
\* elements present.
C3_Witness ==
    /\ StrictPrefix
    /\ ixcmd.tag = "AddLiquidity"
    /\ Len(ixcmd.deposit_amounts) = 3
    /\ Len(ixbuf) = 1 + 4 + 8 + 3
    /\ ixout = Err("InvalidInstruction")

\* C4 as claimed: no call of SwapVersion::pack, SwapVersion::unpack,
\* SwapVersion::is_initialized or SwapInstruction::unpack panics.
C4_NoAbort == wr.kind # "Panic" /\ rd.kind # "Panic" /\ ixout.kind # "Panic"

\* C5 as claimed: SwapVersion::is_initialized always returns a boolean: true
\* exactly when data decodes to a record whose is_initialized is true.
C5_ProbeTotal ==
    Probed =>
        /\ rd.kind = "Ok"
        /\ rd.val = (/\ SwapVersion_unpack(data).kind = "Ok"
                     /\ SwapVersion_unpack(data).val.is_initialized)

\* The bytes of slots k.. of the two per-coin regions, as indexes in data.
UnusedSlotBytes(k) ==
    { At(F_multipliers, t) : t \in (k * 8)..(MAX_N_COINS * 8 - 1) }
    \cup { At(F_tokens, t) : t \in (k * PUBKEY_BYTES)..(MAX_N_COINS * PUBKEY_BYTES - 1) }

\* C6: an initialized record of coin count k packed into a buffer that still
\* holds the slots of an earlier, larger record unpacks to exactly that
\* record: both vectors have length k and nothing of the old slots shows.
C6_NoStaleLeak ==
    (Packed /\ WellFormed(src) /\ src.is_initialized /\ data # Encoding(src) /\ Unpacked) =>
        /\ rd = Of("unpack", Ok(src))
        /\ Len(rd.val.precision_multipliers) = CoinCount(src)
        /\ Len(rd.val.token_account_addresses) = CoinCount(src)

\* A 2-coin record of seed 2 over the 4-coin record of seed 1: slots 2..3 of
\* data are still those of the old record.
C6_Witness ==
    /\ Packed
    /\ src = Rec(2, 2, TRUE, 2)
    /\ \A i \in UnusedSlotBytes(2) : data[i] = Encoding(Rec(4, 4, TRUE, 1))[i]
    /\ rd = Of("unpack", Ok(src))

\* The buffer that has the bytes of old in slots k.. of the two per-coin
\* regions and the bytes of enc everywhere else.
Splice(enc, old, k) ==
    LET m == Write(enc, At(F_multipliers, k * 8) - 1,
                   SubSeq(old, At(F_multipliers, k * 8),
                               At(F_multipliers, MAX_N_COINS * 8 - 1)))
    IN  Write(m, At(F_tokens, k * PUBKEY_BYTES) - 1,
              SubSeq(old, At(F_tokens, k * PUBKEY_BYTES),
                          At(F_tokens, MAX_N_COINS * PUBKEY_BYTES - 1)))

\* C7: a successful SwapVersion::pack of a record of coin count k writes the
\* bytes that depend on the record alone everywhere except in slots k.. of
\* the two per-coin regions, whose bytes it leaves as they were.
C7_Frame ==
    [][(src' # None /\ rd' = None /\ wr'.kind = "Ok" /\ WellFormed(src')) =>
          data' = Splice(Encoding(src'), data, CoinCount(src'))]_vars

\* The same record packed here and into a zero-filled buffer gives
\* different bytes.
C7_Witness ==
    /\ Packed
    /\ rd = None
    /\ WellFormed(src)
    /\ CoinCount(src) < MAX_N_COINS
    /\ data # Encoding(src)

\* C8: LATEST_LEN = 1 + SwapV2::LEN = 265 whatever the coin count; pack
\* succeeds only on a buffer of LATEST_LEN bytes; unpack of a buffer whose
\* version byte is 2 fails with InvalidAccountData unless it has LATEST_LEN
\* bytes.
C8_FixedLength ==
    /\ SwapV2_LEN = 264
    /\ LATEST_LEN = 265
    /\ Packed => Len(data) = LATEST_LEN
    /\ (Unpacked /\ rd.kind = "Ok") => Len(data) = LATEST_LEN
    /\ (Unpacked /\ Len(data) > 0 /\ data[1] = 2 /\ Len(data) # LATEST_LEN) =>
          rd = Of("unpack", Err("InvalidAccountData"))

C8_Witness ==
    /\ Unpacked
    /\ Len(data) = LATEST_LEN + 1
    /\ data[1] = 2
    /\ rd = Of("unpack", Err("InvalidAccountData"))

\* C9 as claimed: a full-length Initialize buffer with a flag byte outside
\* {0, 1} fails with InvalidAccountData, and so does a LATEST_LEN record
\* buffer of version 2 with the is_initialized byte or a flag byte outside
\* {0, 1}, whatever its other bytes hold.
C9_BooleanValidation ==
    /\ (/\ ixout # None
        /\ Len(ixbuf) = 29
        /\ ixbuf[1] = 0
        /\ (ixbuf[28] \notin {0, 1} \/ ixbuf[29] \notin {0, 1}))
       => ixout = Err("InvalidAccountData")
    /\ (/\ Unpacked
        /\ Len(data) = LATEST_LEN
        /\ data[1] = 2
        /\ \/ data[At(F_is_initialized, 0)] \notin {0, 1}
           \/ data[At(F_admin_settings, 0)] \notin {0, 1}
           \/ data[At(F_admin_settings, 1)] \notin {0, 1})
       => rd = Of("unpack", Err("InvalidAccountData"))

\* C10: unpack of a non-empty buffer whose first byte is not 2 fails with
\* UninitializedAccount, whatever its length and other bytes; unpack of the
\* empty buffer fails with InvalidAccountData, a different kind.
C10_UnknownVersion ==
    /\ (Unpacked /\ Len(data) > 0 /\ data[1] # 2) =>
          rd = Of("unpack", Err("UninitializedAccount"))
    /\ (Unpacked /\ Len(data) = 0) => rd = Of("unpack", Err("InvalidAccountData"))
    /\ "UninitializedAccount" # "InvalidAccountData"

C10_Witness ==
    /\ Unpacked
    /\ Len(data) = LATEST_LEN
    /\ data[1] = 3
    /\ rd = Of("unpack", Err("UninitializedAccount"))

\* C11: unpack of a non-empty command buffer whose first byte is not one of
\* the tags 0..5 fails with InvalidAccountData, whatever bytes follow it; the
\* one-byte buffer <<5>> unpacks to GetVirtualPrice.
C11_UnknownTag ==
    /\ (ixout # None /\ Len(ixbuf) > 0 /\ ixbuf[1] \notin 0..5) =>
          ixout = Err("InvalidAccountData")
    /\ (ixout # None /\ ixbuf = <<5>>) => ixout = Ok([tag |-> "GetVirtualPrice"])

C11_Witness ==
    /\ ixout = Err("InvalidAccountData")
    /\ Len(ixbuf) > 1
    /\ ixbuf[1] = 255

\* Byte k (0-based) of the little-endian form of v, for v below 2^31.
LeByte(v, k) ==
    IF k < 3 THEN (v \div 256^k) % 256
    ELSE IF k = 3 THEN v \div 16777216
    ELSE 0
\* Bytes lo .. lo + n - 1 (1-based) of b hold v, least significant byte first.
HoldsLe(b, lo, n, v) ==
    /\ Len(b) >= lo + n - 1
    /\ \A k \in 0..(n - 1) : b[lo + k] = LeByte(v, k)
\* The amounts follow one another from byte lo on, 8 bytes each.
HoldsAmounts(b, lo, amounts) ==
    \A i \in 1..Len(amounts) : HoldsLe(b, lo + 8 * (i - 1), 8, amounts[i])

\* The bytes SwapInstruction::pack produced for ixcmd are the tag and then
\* the fields in order, little-endian, nothing between or after them, an
\* Initialize being initialize_len bytes long; and a successful unpack of an
\* AddLiquidity buffer reads min_mint_amount right after the counted amounts.
WireLayout(initialize_len) ==
    /\ IxFresh =>
        CASE ixcmd.tag = "Initialize" ->
                /\ Len(ixbuf) = initialize_len
                /\ ixbuf[1] = 0
                /\ ixbuf[2] = ixcmd.nonce
                /\ ixbuf[3] = ixcmd.n_coins
                /\ HoldsLe(ixbuf, 4, 8, ixcmd.amplification_coefficient)
                /\ HoldsLe(ixbuf, 12, 8, ixcmd.fee_numerator)
                /\ HoldsLe(ixbuf, 20, 8, ixcmd.admin_fee_numerator)
                /\ ixbuf[initialize_len - 1]
                      = (IF ixcmd.admin_settings.swap_enabled THEN 1 ELSE 0)
                /\ ixbuf[initialize_len]
                      = (IF ixcmd.admin_settings.add_liquidity_enabled THEN 1 ELSE 0)
          [] ixcmd.tag = "AddLiquidity" ->
                LET n == Len(ixcmd.deposit_amounts) IN
                /\ Len(ixbuf) = 13 + 8 * n
                /\ ixbuf[1] = 1
                /\ HoldsLe(ixbuf, 2, 4, n)
                /\ HoldsAmounts(ixbuf, 6, ixcmd.deposit_amounts)
                /\ HoldsLe(ixbuf, 6 + 8 * n, 8, ixcmd.min_mint_amount)
          [] ixcmd.tag = "RemoveLiquidity" ->
                LET n == Len(ixcmd.minimum_amounts) IN
                /\ Len(ixbuf) = 13 + 8 * n
                /\ ixbuf[1] = 2
                /\ HoldsLe(ixbuf, 2, 8, ixcmd.unmint_amount)
                /\ HoldsLe(ixbuf, 10, 4, n)
                /\ HoldsAmounts(ixbuf, 14, ixcmd.minimum_amounts)
          [] ixcmd.tag = "RemoveLiquidityOneToken" ->
                /\ Len(ixbuf) = 17
                /\ ixbuf[1] = 3
                /\ HoldsLe(ixbuf, 2, 8, ixcmd.unmint_amount)
                /\ HoldsLe(ixbuf, 10, 8, ixcmd.minimum_out_amount)
          [] ixcmd.tag = "Exchange" ->
                /\ Len(ixbuf) = 17
                /\ ixbuf[1] = 4
                /\ HoldsLe(ixbuf, 2, 8, ixcmd.in_amount)
                /\ HoldsLe(ixbuf, 10, 8, ixcmd.minimum_out_amount)
          [] ixcmd.tag = "GetVirtualPrice" -> ixbuf = <<5>>
    /\ (ixout # None /\ ixout.kind = "Ok" /\ ixbuf[1] = 1) =>
          /\ HoldsLe(ixbuf, 2, 4, Len(ixout.val.deposit_amounts))
          /\ HoldsAmounts(ixbuf, 6, ixout.val.deposit_amounts)
          /\ HoldsLe(ixbuf, 6 + 8 * Len(ixout.val.deposit_amounts), 8,
                     ixout.val.min_mint_amount)

\* C12 as claimed: the wire layout above, with an Initialize of 28 bytes.
C12_WireLayoutClaimed == WireLayout(28)

\* C12: the wire layout above, with an Initialize of 29 bytes: tag, nonce,
\* n_coins, three u64 fields and two flag bytes; 13 + 8n bytes for
\* AddLiquidity and RemoveLiquidity with n amounts, 17 for
\* RemoveLiquidityOneToken and Exchange, 1 for GetVirtualPrice.
C12_WireLayout == WireLayout(29)

C12_Witness ==
    /\ ixcmd # None
    /\ ixcmd.tag = "AddLiquidity"
    /\ Len(ixcmd.deposit_amounts) = 3
    /\ Len(ixbuf) = 37
    /\ ixbuf[2] = 2
    /\ ixout # None
    /\ ixout.kind = "Ok"
    /\ Len(ixout.val.deposit_amounts) = 2
    /\ ixout.val.min_mint_amount = ixcmd.deposit_amounts[3]

\* C17: every command a successful SwapInstruction::unpack returns has
\* n_coins (Initialize) and the length of its amount vector (AddLiquidity,
\* RemoveLiquidity) at most MAX_N_COINS.
C17_CoinBound ==
    (ixout # None /\ ixout.kind = "Ok") =>
        CASE ixout.val.tag = "Initialize" -> ixout.val.n_coins <= MAX_N_COINS
          [] ixout.val.tag = "AddLiquidity" ->
                Len(ixout.val.deposit_amounts) <= MAX_N_COINS
          [] ixout.val.tag = "RemoveLiquidity" ->
                Len(ixout.val.minimum_amounts) <= MAX_N_COINS
          [] OTHER -> TRUE

\* C18: SwapVersion::pack into a non-empty buffer whose length is not
\* LATEST_LEN returns InvalidAccountData and leaves the buffer with byte 0
\* set to the version 2 and every other byte as it was.
C18_NotAtomic ==
    [][(src' # None /\ rd' = None /\ Len(data) > 0 /\ Len(data) # LATEST_LEN) =>
          /\ wr' = Err("InvalidAccountData")
          /\ data' = <<2>> \o Tail(data)]_vars

\* A failed pack into a zero-filled buffer one byte too long: byte 0 is 2.
C18_Witness ==
    /\ src # None
    /\ wr = Err("InvalidAccountData")
    /\ Len(data) = LATEST_LEN + 1
    /\ data = <<2>> \o Fill(LATEST_LEN, 0)

\* The builder fn was called and returned a payload.
Built(fn) == built # None /\ built.fn = fn /\ IsOk(built.res)
\* An account entry of a payload.
Meta(pubkey, is_signer, is_writable) ==
    [is_signer |-> is_signer, is_writable |-> is_writable, pubkey |-> pubkey]
\* One entry per key, in order, none a signer.
Metas(keys, is_writable) ==
    [i \in 1..Len(keys) |-> Meta(keys[i], FALSE, is_writable)]
\* The keys and access modes of an account list, signer flags left out.
Modes(accounts) ==
    [i \in 1..Len(accounts) |->
        <<accounts[i].pubkey, accounts[i].is_writable>>]

\* C13: a builder called with a program id other than the declared one
\* returns IncorrectProgramId and no payload, whatever its other arguments;
\* called with the declared id it returns a payload carrying that id.
C13_ProgramIdCheck ==
    built # None =>
        IF built.program_id # id
        THEN built.res = Err("IncorrectProgramId")
        ELSE IsOk(built.res) /\ built.res.val.program_id = built.program_id

C13_Witness ==
    /\ built # None
    /\ built.fn = "exchange"
    /\ built.program_id = Key(77)
    /\ Len(built.tokens) = 2
    /\ built.res = Err("IncorrectProgramId")

\* C14: every command variant has a builder; and a builder called with the
\* declared program id returns a payload whose data is SwapInstruction::pack
\* of its variant carrying the parameters supplied, which unpacks to that
\* command.
C14_OneBuilderPerVariant ==
    /\ \A c \in Commands : \E fn \in DOMAIN Builders : Builders[fn] = c.tag
    /\ (built # None /\ built.program_id = id) =>
          /\ IsOk(built.res)
          /\ Builders[built.fn] = built.cmd.tag
          /\ built.res.val.data = SwapInstruction_pack(built.cmd)
          /\ SwapInstruction_unpack(built.res.val.data) = Ok(built.cmd)

\* C15: the payload of add_liquidity lists the swap account writable, then
\* the token program, the authority and the user transfer authority
\* read-only, then writable every swap token account, the pool mint, every
\* source token account and the LP token account.
C15_AddLiquidityAccounts ==
    Built("add_liquidity") =>
        Modes(built.res.val.accounts) =
            <<<<Accts.swap_account_address, TRUE>>,
              <<Accts.token_program_address, FALSE>>,
              <<Accts.pool_authority_address, FALSE>>,
              <<Accts.user_transfer_authority_address, FALSE>>>>
            \o [i \in 1..Len(built.tokens) |-> <<built.tokens[i], TRUE>>]
            \o <<<<Accts.pool_token_mint_address, TRUE>>>>
            \o [i \in 1..Len(built.others) |-> <<built.others[i], TRUE>>]
            \o <<<<Accts.lp_token_account_address, TRUE>>>>

\* C16: the payload of initialize lists, none a signer: the pool account
\* writable, then read-only the authority, the token accounts in the
\* caller's order, the mints in the caller's order, the pool mint and the
\* admin mint; 4 + token accounts + mints entries, whatever the command's
\* parameters.
C16_InitializeAccounts ==
    Built("initialize") =>
        /\ built.res.val.accounts =
              <<Meta(Accts.swap_account_address, FALSE, TRUE),
                Meta(Accts.pool_authority_address, FALSE, FALSE)>>
              \o Metas(built.tokens, FALSE)
              \o Metas(built.others, FALSE)
              \o <<Meta(Accts.pool_token_mint_address, FALSE, FALSE),
                   Meta(Accts.admin_token_mint_address, FALSE, FALSE)>>
        /\ Len(built.res.val.accounts)
              = 4 + Len(built.tokens) + Len(built.others)

C16_Witness ==
    /\ Built("initialize")
    /\ Len(built.tokens) = 2
    /\ Len(built.others) = 1
    /\ Len(built.res.val.accounts) = 7
    /\ built.cmd.n_coins = 200

====
